---- MODULE Spec2Model ----
(***************************************************************************)
(* User registration, lookup and login: the UserRepositoryAdapter of       *)
(* app/user/adapter/output/persistence/repository_adapter.py, the          *)
(* repository it delegates to, and the UserService that the tests of       *)
(* tests/app/user/application/service/test_user.py exercise.               *)
(*                                                                         *)
(* The adapter is translated from its source.  The repository behind it    *)
(* (UserSQLAlchemyRepo), the UserService and the TokenHelper are not part  *)
(* of the source tree; they are written down from the specification and    *)
(* the tests, and are marked as such where they are defined.               *)
(*                                                                         *)
(* An optional value (User | None, int | None) is a sequence of length at  *)
(* most one: <<>> is None and <<v>> is the value v.                        *)
(***************************************************************************)
EXTENDS Integers, Sequences, FiniteSets, TLC

VARIABLES
    store,    \* the persisted Users, in the order they were inserted
    before,   \* the store as the last operation found it
    calls,    \* the calls that reached user_repo during the last operation
    last,     \* the last operation: its name, arguments and outcome
    issued,   \* the token pairs login has returned so far, per user id
    pc,       \* per concurrent create_user call: "start", "looked", "done"
    cmdOf,    \* per concurrent create_user call: its command
    raisedOf  \* per concurrent create_user call: the exception it raised

vars == <<store, before, calls, last, issued, pc, cmdOf, raisedOf>>

----------------------------------------------------------------------------
(* Bounds of the model. *)

MaxUsers == 3

(* The default page size of get_users. *)
DefaultLimit == 12

None == <<>>
Some(v) == <<v>>

Emails == {"root@x", "a@x"}
Nicknames == {"root", "ann"}
Passwords == {"p", "q"}
Lats == {37}
Lngs == {127, 128}
Limits == {1, DefaultLimit}
Prevs == {None, Some(1)}
UserIds == 1..(MaxUsers + 1)
Procs == {1, 2}

NoException == "none"
RepositoryError == "RepositoryError"

----------------------------------------------------------------------------
(* Domain values. *)

Location(lat, lng) == [lat |-> lat, lng |-> lng]

User(id, password, email, nickname, is_admin, location) ==
    [id |-> id, password |-> password, email |-> email, nickname |-> nickname,
     is_admin |-> is_admin, location |-> location]

UserRead(user) == [id |-> user.id, email |-> user.email, nickname |-> user.nickname]

CreateUserCommand(email, password1, password2, nickname, lat, lng) ==
    [email |-> email, password1 |-> password1, password2 |-> password2,
     nickname |-> nickname, lat |-> lat, lng |-> lng]

Commands ==
    {CreateUserCommand(e, p1, p2, n, lat, lng) :
        e \in Emails, p1 \in Passwords, p2 \in Passwords, n \in Nicknames,
        lat \in Lats, lng \in Lngs}

(* An administrator that exists before any create_user call: is_admin is   *)
(* true only where it was set explicitly, which create_user never does.    *)
RootUser == User(Some(1), "p", "root@x", "root", TRUE, Location(37, 127))

----------------------------------------------------------------------------
(* The repository behind the adapter (user_repo).  Each operation takes    *)
(* the store and gives the value returned and the store afterwards.        *)
(* get_users pages by id: the Users whose id comes after the cursor prev,   *)
(* at most limit of them, in the order of the store.                       *)

RECURSIVE Filter(_, _)
Filter(s, keep) ==
    IF s = <<>> THEN <<>>
    ELSE IF Head(s) \in keep THEN <<Head(s)>> \o Filter(Tail(s), keep)
    ELSE Filter(Tail(s), keep)

Take(s, n) == IF Len(s) <= n THEN s ELSE SubSeq(s, 1, n)

Range(s) == {s[i] : i \in DOMAIN s}

First(s) == IF s = <<>> THEN None ELSE Some(Head(s))

UserRepo_get_users(s, limit, prev) ==
    LET after == IF prev = None THEN s
                 ELSE Filter(s, {u \in Range(s) : u.id[1] > prev[1]})
    IN  [value |-> Take(after, limit), store |-> s]

UserRepo_get_user_by_email_or_nickname(s, email, nickname) ==
    [value |-> First(Filter(s, {u \in Range(s) :
                                  u.email = email \/ u.nickname = nickname})),
     store |-> s]

UserRepo_get_user_by_id(s, user_id) ==
    [value |-> First(Filter(s, {u \in Range(s) : u.id = Some(user_id)})),
     store |-> s]

UserRepo_get_user_by_email_and_password(s, email, password) ==
    [value |-> First(Filter(s, {u \in Range(s) :
                                  u.email = email /\ u.password = password})),
     store |-> s]

(* save persists a User that has no id yet under the next id, and updates  *)
(* the row of a User that has one.                                         *)
UserRepo_save(s, user) ==
    [value |-> None,
     store |-> IF user.id = None
               THEN Append(s, [user EXCEPT !.id = Some(Len(s) + 1)])
               ELSE [i \in DOMAIN s |-> IF s[i].id = user.id THEN user ELSE s[i]]]

(* One call on user_repo: it either raises (the store cannot be reached)   *)
(* and changes nothing, or runs the operation named.                       *)
Call(op, args) == [op |-> op, args |-> args]

UserRepo(s, call, fails) ==
    IF fails THEN [raised |-> RepositoryError, value |-> None, store |-> s]
    ELSE LET a == call.args
             r == CASE call.op = "get_users" ->
                          UserRepo_get_users(s, a.limit, a.prev)
                    [] call.op = "get_user_by_email_or_nickname" ->
                          UserRepo_get_user_by_email_or_nickname(s, a.email, a.nickname)
                    [] call.op = "get_user_by_id" ->
                          UserRepo_get_user_by_id(s, a.user_id)
                    [] call.op = "get_user_by_email_and_password" ->
                          UserRepo_get_user_by_email_and_password(s, a.email, a.password)
                    [] call.op = "save" ->
                          UserRepo_save(s, a.user)
         IN  [raised |-> NoException, value |-> r.value, store |-> r.store]

----------------------------------------------------------------------------
(* UserRepositoryAdapter.  Each method awaits one method of user_repo and  *)
(* returns what it returns; an exception of user_repo is not caught.  The  *)
(* result carries the calls made on user_repo.                             *)

Delegate(s, call, fails) ==
    LET r == UserRepo(s, call, fails)
    IN  [calls |-> <<call>>, raised |-> r.raised, value |-> r.value, store |-> r.store]

(* kw holds the keyword arguments the caller gave; limit and prev have     *)
(* defaults.                                                               *)
Arg(kw, name, default) == IF name \in DOMAIN kw THEN kw[name] ELSE default

(* A slip: the caller's limit is dropped and the default is passed on. *)
Adapter_get_users_IgnoresLimit(s, kw, fails) ==
    Delegate(s, Call("get_users", [limit |-> DefaultLimit,
                                   prev |-> Arg(kw, "prev", None)]), fails)

Adapter_get_users(s, kw, fails) ==
    LET limit == Arg(kw, "limit", DefaultLimit)
        prev == Arg(kw, "prev", None)
    IN  Delegate(s, Call("get_users", [limit |-> limit, prev |-> prev]), fails)

(* A slip: the result of user_repo is awaited but not returned. *)
Adapter_get_user_by_email_or_nickname_NoReturn(s, email, nickname, fails) ==
    LET r == Delegate(s, Call("get_user_by_email_or_nickname",
                              [email |-> email, nickname |-> nickname]), fails)
    IN  [r EXCEPT !.value = None]

(* A slip: the email is passed on as the nickname too. *)
Adapter_get_user_by_email_or_nickname_EmailTwice(s, email, nickname, fails) ==
    Delegate(s, Call("get_user_by_email_or_nickname",
                     [email |-> email, nickname |-> email]), fails)

Adapter_get_user_by_email_or_nickname(s, email, nickname, fails) ==
    Delegate(s, Call("get_user_by_email_or_nickname",
                     [email |-> email, nickname |-> nickname]), fails)

(* A slip: the result of user_repo is awaited but not returned. *)
Adapter_get_user_by_id_NoReturn(s, user_id, fails) ==
    LET r == Delegate(s, Call("get_user_by_id", [user_id |-> user_id]), fails)
    IN  [r EXCEPT !.value = None]

Adapter_get_user_by_id(s, user_id, fails) ==
    Delegate(s, Call("get_user_by_id", [user_id |-> user_id]), fails)

(* A slip: email and password are passed on in each other's place. *)
Adapter_get_user_by_email_and_password_Swapped(s, email, password, fails) ==
    Delegate(s, Call("get_user_by_email_and_password",
                     [email |-> password, password |-> email]), fails)

Adapter_get_user_by_email_and_password(s, email, password, fails) ==
    Delegate(s, Call("get_user_by_email_and_password",
                     [email |-> email, password |-> password]), fails)

(* A slip: the coroutine of user_repo.save is created but not awaited, so   *)
(* the call never runs.                                                    *)
Adapter_save_NotAwaited(s, user, fails) ==
    [calls |-> <<>>, raised |-> NoException, value |-> None, store |-> s]

(* A slip: an exception of user_repo.save is caught and dropped. *)
Adapter_save_SwallowsError(s, user, fails) ==
    LET r == Delegate(s, Call("save", [user |-> user]), fails)
    IN  [r EXCEPT !.value = None, !.raised = NoException]

Adapter_save(s, user, fails) ==
    LET r == Delegate(s, Call("save", [user |-> user]), fails)
    IN  [r EXCEPT !.value = None]

----------------------------------------------------------------------------
(* TokenHelper.encode signs a payload; the token is determined by the      *)
(* payload and determines it.                                              *)
TokenHelper_encode(payload) == [alg |-> "HS256", payload |-> payload]

LoginResponse(token, refresh_token) ==
    [token |-> token, refresh_token |-> refresh_token]

PasswordDoesNotMatchException == "PasswordDoesNotMatchException"
DuplicateEmailOrNicknameException == "DuplicateEmailOrNicknameException"
UserNotFoundException == "UserNotFoundException"

----------------------------------------------------------------------------
(* UserService.  self.repository is the UserRepositoryAdapter.  Each       *)
(* operation gives the exception raised (or none), the value returned,     *)
(* the calls made on user_repo and the store afterwards.  The service is   *)
(* run against a store that answers; a store that fails is taken up with   *)
(* the adapter's own operations further down.                              *)

Outcome(raised, value, made, s) ==
    [raised |-> raised, value |-> value, calls |-> made, store |-> s]

Service_get_user_list(s, limit, prev) ==
    LET r == Adapter_get_users(s, [limit |-> limit, prev |-> prev], FALSE)
    IN  Outcome(NoException, [i \in DOMAIN r.value |-> UserRead(r.value[i])],
                r.calls, r.store)

User_create(command) ==
    User(None, command.password1, command.email, command.nickname, FALSE,
         Location(command.lat, command.lng))

(* A slip: the duplicate check runs before the password check. *)
Service_create_user_lookup_DuplicateFirst(s, command) ==
    LET r == Adapter_get_user_by_email_or_nickname(
                 s, command.email, command.nickname, FALSE)
    IN  IF r.value # None
        THEN Outcome(DuplicateEmailOrNicknameException, None, r.calls, r.store)
        ELSE IF command.password1 # command.password2
        THEN Outcome(PasswordDoesNotMatchException, None, r.calls, r.store)
        ELSE Outcome(NoException, None, r.calls, r.store)

(* create_user up to the await of the lookup: the password check, then the *)
(* lookup through the repository.                                          *)
Service_create_user_lookup(s, command) ==
    IF command.password1 # command.password2
    THEN Outcome(PasswordDoesNotMatchException, None, <<>>, s)
    ELSE LET r == Adapter_get_user_by_email_or_nickname(
                      s, command.email, command.nickname, FALSE)
         IN  IF r.value # None
             THEN Outcome(DuplicateEmailOrNicknameException, None, r.calls, r.store)
             ELSE Outcome(NoException, None, r.calls, r.store)

(* create_user after the lookup found nothing: build the User and save it. *)
Service_create_user_save(s, command) ==
    LET r == Adapter_save(s, User_create(command), FALSE)
    IN  Outcome(NoException, None, r.calls, r.store)

(* A slip: the User is saved before the outcome of the lookup is looked at. *)
Service_create_user_SavesFirst(s, command) ==
    LET looked == Service_create_user_lookup(s, command)
        done == Service_create_user_save(looked.store, command)
    IN  IF command.password1 # command.password2 THEN looked
        ELSE Outcome(looked.raised, None, looked.calls \o done.calls, done.store)

Service_create_user(s, command) ==
    LET looked == Service_create_user_lookup(s, command)
    IN  IF looked.raised # NoException THEN looked
        ELSE LET done == Service_create_user_save(looked.store, command)
             IN  Outcome(done.raised, done.value, looked.calls \o done.calls,
                         done.store)

Service_is_admin(s, user_id) ==
    LET r == Adapter_get_user_by_id(s, user_id, FALSE)
    IN  IF r.value = None THEN Outcome(NoException, FALSE, r.calls, r.store)
        ELSE IF r.value[1].is_admin = FALSE
             THEN Outcome(NoException, FALSE, r.calls, r.store)
        ELSE Outcome(NoException, TRUE, r.calls, r.store)

Service_login(s, email, password) ==
    LET r == Adapter_get_user_by_email_and_password(s, email, password, FALSE)
    IN  IF r.value = None
        THEN Outcome(UserNotFoundException, None, r.calls, r.store)
        ELSE Outcome(NoException,
                     LoginResponse(
                         TokenHelper_encode([user_id |-> r.value[1].id[1]]),
                         TokenHelper_encode([sub |-> "refresh"])),
                     r.calls, r.store)

----------------------------------------------------------------------------
(* The state after construction: the store is empty or holds the           *)
(* administrator; nothing has been called.                                 *)

Init ==
    /\ store \in {<<>>, <<RootUser>>}
    /\ before = store
    /\ calls = <<>>
    /\ last = [op |-> "init", args |-> None, raised |-> NoException, value |-> None]
    /\ issued = {}
    /\ pc = [p \in Procs |-> "start"]
    /\ cmdOf = [p \in Procs |-> None]
    /\ raisedOf = [p \in Procs |-> NoException]

Record(op, args, r) ==
    /\ store' = r.store
    /\ before' = store
    /\ calls' = r.calls
    /\ last' = [op |-> op, args |-> args, raised |-> r.raised, value |-> r.value]

(* The service's operations, each run to completion before the next.      *)

GetUserList ==
    \E limit \in Limits, prev \in Prevs :
        /\ Record("get_user_list", [limit |-> limit, prev |-> prev],
                  Service_get_user_list(store, limit, prev))
        /\ UNCHANGED <<issued, pc, cmdOf, raisedOf>>

CreateUser ==
    \E command \in Commands :
        /\ Len(store) < MaxUsers
        /\ Record("create_user", command, Service_create_user(store, command))
        /\ UNCHANGED <<issued, pc, cmdOf, raisedOf>>

IsAdmin ==
    \E user_id \in UserIds :
        /\ Record("is_admin", [user_id |-> user_id],
                  Service_is_admin(store, user_id))
        /\ UNCHANGED <<issued, pc, cmdOf, raisedOf>>

(* The id (if any) of the User in s that has this email and password. *)
Found(s, email, password) ==
    LET v == UserRepo_get_user_by_email_and_password(s, email, password).value
    IN  IF v = None THEN None ELSE v[1].id

Login ==
    \E email \in Emails, password \in Passwords :
        LET r == Service_login(store, email, password)
        IN  /\ Record("login", [email |-> email, password |-> password], r)
            /\ issued' = IF r.raised = NoException
                         THEN issued \cup {[user |-> Found(store, email, password),
                                            pair |-> r.value]}
                         ELSE issued
            /\ UNCHANGED <<pc, cmdOf, raisedOf>>

Next == GetUserList \/ CreateUser \/ IsAdmin \/ Login

Spec == Init /\ [][Next]_vars

----------------------------------------------------------------------------
(* The adapter called directly, by any caller, against a store that may    *)
(* fail to answer.                                                         *)

KeywordArgs ==
    {<<>>} \cup {[limit |-> l] : l \in Limits} \cup {[prev |-> p] : p \in Prevs}
           \cup {[limit |-> l, prev |-> p] : l \in Limits, p \in Prevs}

SaveInputs ==
    { User(None, "q", "a@x", "ann", FALSE, Location(37, 128)),
      User(None, "p", "a@x", "root", FALSE, Location(37, 127)),
      User(None, "p", "root@x", "ann", TRUE, Location(37, 127)),
      User(Some(1), "q", "root@x", "root", FALSE, Location(37, 127)) }

RecordAdapter(op, args, fails, r) ==
    /\ store' = r.store
    /\ before' = store
    /\ calls' = r.calls
    /\ last' = [op |-> op, args |-> args, fails |-> fails,
                raised |-> r.raised, value |-> r.value]
    /\ UNCHANGED <<issued, pc, cmdOf, raisedOf>>

AdapterGetUsers ==
    \E kw \in KeywordArgs, fails \in BOOLEAN :
        RecordAdapter("get_users", kw, fails, Adapter_get_users(store, kw, fails))

AdapterGetUserByEmailOrNickname ==
    \E email \in Emails, nickname \in Nicknames, fails \in BOOLEAN :
        RecordAdapter("get_user_by_email_or_nickname",
                      [email |-> email, nickname |-> nickname], fails,
                      Adapter_get_user_by_email_or_nickname(store, email, nickname, fails))

AdapterGetUserById ==
    \E user_id \in UserIds, fails \in BOOLEAN :
        RecordAdapter("get_user_by_id", [user_id |-> user_id], fails,
                      Adapter_get_user_by_id(store, user_id, fails))

AdapterGetUserByEmailAndPassword ==
    \E email \in Emails, password \in Passwords, fails \in BOOLEAN :
        RecordAdapter("get_user_by_email_and_password",
                      [email |-> email, password |-> password], fails,
                      Adapter_get_user_by_email_and_password(store, email, password, fails))

AdapterSave ==
    \E user \in SaveInputs, fails \in BOOLEAN :
        /\ user.id = None => Len(store) < MaxUsers
        /\ RecordAdapter("save", [user |-> user], fails,
                         Adapter_save(store, user, fails))

NextAdapter ==
    \/ AdapterGetUsers
    \/ AdapterGetUserByEmailOrNickname
    \/ AdapterGetUserById
    \/ AdapterGetUserByEmailAndPassword
    \/ AdapterSave

SpecAdapter == Init /\ [][NextAdapter]_vars

----------------------------------------------------------------------------
(* Concurrent create_user calls.  A call runs up to the await of its       *)
(* lookup in one step and, when the lookup found nothing, saves in a later *)
(* step; steps of other calls may come between the two.                    *)

CreateUserLookup(p) ==
    \E command \in Commands :
        LET r == Service_create_user_lookup(store, command)
        IN  /\ pc[p] = "start"
            /\ cmdOf' = [cmdOf EXCEPT ![p] = Some(command)]
            /\ raisedOf' = [raisedOf EXCEPT ![p] = r.raised]
            /\ pc' = [pc EXCEPT ![p] = IF r.raised = NoException
                                       THEN "looked" ELSE "done"]
            /\ store' = r.store
            /\ UNCHANGED <<before, calls, last, issued>>

CreateUserSave(p) ==
    LET r == Service_create_user_save(store, cmdOf[p][1])
    IN  /\ pc[p] = "looked"
        /\ store' = r.store
        /\ raisedOf' = [raisedOf EXCEPT ![p] = r.raised]
        /\ pc' = [pc EXCEPT ![p] = "done"]
        /\ UNCHANGED <<before, calls, last, issued, cmdOf>>

NextConcurrent == \E p \in Procs : CreateUserLookup(p) \/ CreateUserSave(p)

SpecConcurrent == Init /\ [][NextConcurrent]_vars

----------------------------------------------------------------------------
(* Properties.                                                             *)

SaveCalls == Filter(calls, {c \in Range(calls) : c.op = "save"})

Unique(s) ==
    \A i, j \in DOMAIN s :
        i # j => s[i].email # s[j].email /\ s[i].nickname # s[j].nickname

Matching(s, command) ==
    {u \in Range(s) : u.email = command.email \/ u.nickname = command.nickname}

(* C1: after any sequence of create_user calls run one after another, no   *)
(* two persisted Users share an email and no two share a nickname.         *)
C1_UniqueEmailAndNickname == Unique(store)

(* C1 witness: a second User was just persisted, and it came from a store  *)
(* that was empty at the start (the administrator is not in it).           *)
C1_Witness ==
    /\ last.op = "create_user" /\ last.raised = NoException
    /\ Len(store) = 2 /\ Len(before) = 1
    /\ RootUser \notin Range(store)

(* C2: create_user with password1 # password2 fails with                   *)
(* PasswordDoesNotMatchException whatever the other fields and the store,  *)
(* also when a stored User has the command's email or nickname.            *)
C2_PasswordMismatchRaises ==
    (last.op = "create_user" /\ last.args.password1 # last.args.password2)
        => /\ last.raised = PasswordDoesNotMatchException
           /\ store = before

(* C2 witness: a mismatching command whose email is already stored.        *)
C2_Witness ==
    /\ last.op = "create_user" /\ last.args.password1 # last.args.password2
    /\ \E u \in Range(before) : u.email = last.args.email

(* C3: create_user with equal passwords fails with                         *)
(* DuplicateEmailOrNicknameException whenever a stored User has the        *)
(* command's email or has its nickname.                                    *)
C3_DuplicateRaises ==
    (/\ last.op = "create_user"
     /\ last.args.password1 = last.args.password2
     /\ Matching(before, last.args) # {})
        => last.raised = DuplicateEmailOrNicknameException

(* C3 witness: the nickname alone matches a stored User.                   *)
C3_Witness ==
    /\ last.op = "create_user"
    /\ last.args.password1 = last.args.password2
    /\ \E u \in Range(before) : u.nickname = last.args.nickname
    /\ \A u \in Range(before) : u.email # last.args.email

(* C4: create_user with equal passwords and no stored User matching the    *)
(* email or nickname makes exactly one save call, with a User that has the *)
(* command's email and nickname, the Location of its lat and lng, and      *)
(* is_admin false.                                                         *)
C4_SavesOnce ==
    (/\ last.op = "create_user"
     /\ last.args.password1 = last.args.password2
     /\ Matching(before, last.args) = {})
        => /\ Len(SaveCalls) = 1
           /\ LET user == SaveCalls[1].args.user
              IN  /\ user.email = last.args.email
                  /\ user.nickname = last.args.nickname
                  /\ user.location = Location(last.args.lat, last.args.lng)
                  /\ user.is_admin = FALSE

(* C4 witness: such a create_user ran against a store that held a User.    *)
C4_Witness ==
    /\ last.op = "create_user"
    /\ last.args.password1 = last.args.password2
    /\ Matching(before, last.args) = {}
    /\ before # <<>>
    /\ last.args.lng = 128

(* C5: is_admin(user_id) returns true exactly when a User with that id is  *)
(* stored and its is_admin flag is true; otherwise it returns false, and   *)
(* it never raises.                                                        *)
C5_IsAdmin ==
    last.op = "is_admin"
        => /\ last.raised = NoException
           /\ last.value = (\E u \in Range(before) :
                               u.id = Some(last.args.user_id) /\ u.is_admin)

(* C5 witness: true for an administrator stored beside an ordinary User.   *)
C5_Witness ==
    /\ last.op = "is_admin" /\ last.value = TRUE
    /\ \E u \in Range(before) : ~u.is_admin

(* C6: login raises UserNotFoundException exactly when no stored User has  *)
(* the email and password; otherwise it returns the pair                   *)
(* encode({"user_id": id}), encode({"sub": "refresh"}) for the User found, *)
(* so the logins of one User all return one pair and all logins return one *)
(* refresh token.                                                          *)
C6_Login ==
    /\ last.op = "login" =>
          LET found == UserRepo_get_user_by_email_and_password(
                           before, last.args.email, last.args.password).value
          IN  /\ (last.raised = UserNotFoundException) <=> (found = None)
              /\ found # None =>
                    /\ last.raised = NoException
                    /\ last.value = LoginResponse(
                           TokenHelper_encode([user_id |-> found[1].id[1]]),
                           TokenHelper_encode([sub |-> "refresh"]))
    /\ \A a, b \in issued :
          /\ a.user = b.user => a.pair = b.pair
          /\ a.pair.refresh_token = b.pair.refresh_token

(* C6 witness: two different Users have logged in.                         *)
C6_Witness ==
    /\ last.op = "login" /\ last.raised = NoException
    /\ \E a, b \in issued : a.user # b.user

(* C7: get_user_list(limit, prev) makes exactly one get_users call, with   *)
(* the same limit and prev, and returns one UserRead per User the          *)
(* repository returns, in the same order, with its id, email and nickname. *)
C7_GetUserList ==
    last.op = "get_user_list" =>
        LET users == UserRepo_get_users(before, last.args.limit, last.args.prev).value
        IN  /\ calls = <<Call("get_users", [limit |-> last.args.limit,
                                            prev |-> last.args.prev])>>
            /\ last.raised = NoException
            /\ Len(last.value) = Len(users)
            /\ \A i \in DOMAIN users :
                  /\ last.value[i].id = users[i].id
                  /\ last.value[i].email = users[i].email
                  /\ last.value[i].nickname = users[i].nickname

(* C7 witness: two Users stored, and the page cut to one by the limit.     *)
C7_Witness ==
    /\ last.op = "get_user_list"
    /\ Len(before) = 2
    /\ Len(last.value) = 1
    /\ last.args.prev = None

(* C10: only a create_user that succeeds calls save; every other           *)
(* operation, and a create_user that fails, leaves the store as it was.    *)
C10_OnlyCreateUserSaves ==
    /\ SaveCalls # <<>> => (last.op = "create_user" /\ last.raised = NoException)
    /\ store # before => (last.op = "create_user" /\ last.raised = NoException)

(* C10 witness: a create_user was refused as a duplicate.                  *)
C10_Witness ==
    /\ last.op = "create_user"
    /\ last.raised = DuplicateEmailOrNicknameException
    /\ store = before /\ store # <<>>

(* C8: each adapter operation makes exactly one call of the same name on   *)
(* user_repo with the arguments unchanged (limit 12 and prev None when not *)
(* given), returns its result, and lets its exception through; the store   *)
(* ends as the direct call leaves it.                                      *)
AdapterOps ==
    {"get_users", "get_user_by_email_or_nickname", "get_user_by_id",
     "get_user_by_email_and_password", "save"}

C8_AdapterDelegates ==
    last.op \in AdapterOps =>
        LET args == IF last.op = "get_users"
                    THEN [limit |-> IF "limit" \in DOMAIN last.args
                                    THEN last.args.limit ELSE 12,
                          prev |-> IF "prev" \in DOMAIN last.args
                                   THEN last.args.prev ELSE None]
                    ELSE last.args
            direct == UserRepo(before, Call(last.op, args), last.fails)
        IN  /\ calls = <<Call(last.op, args)>>
            /\ last.raised = direct.raised
            /\ last.value = direct.value
            /\ store = direct.store

(* C8 witness: a save that user_repo refused, after one that it took.      *)
C8_Witness ==
    /\ last.op = "save" /\ last.fails
    /\ last.raised = RepositoryError
    /\ Len(store) >= 2

====
